---- MODULE Spec2Model ----
(***************************************************************************)
(* A model of src/tracker.py: the Track record and the Tracker with its    *)
(* operations initialise_from_prior_state, set_trackIdCount, clear_tracks  *)
(* and Update.  Python lists are sequences; Python indices are 0-based and *)
(* are kept 0-based in every local (assignment, del_tracks, ...), the      *)
(* operators At/PyValid/PyGet translate them.  An exception raised inside  *)
(* an operation ends it at that statement and keeps what was mutated       *)
(* before it; the kind of exception is recorded in last.err.               *)
(***************************************************************************)
EXTENDS Integers, Sequences, FiniteSets, TLC

\* ---------------------------------------------------------------- bounds
\* number of operation calls explored from a fresh Tracker
MaxCalls == 3
\* longest detections list handed to one Update
MaxDet == 2
\* most Track objects in Tracker.tracks during a call
MaxTracks == 3

\* ---------------------------------------------------------------- inputs
\* Detection centres [[x],[y]].  The points lie on one line of direction
\* (3,4), so every Euclidean distance between two of them is an integer.
Points == {<<0, 0>>, <<3, 4>>}

\* The class label and the bounding box a detector reports at a point.
ClassOf(p) == IF p[1] = 0 THEN "ant" ELSE "bee"
BoxOf(p) == <<p[1], p[2], 2, 2>>

\* Track.__init__'s default bbox=[None, None, None, None]; None is written -1
DefaultBBox == <<-1, -1, -1, -1>>

\* An optional argument: given = FALSE is Python's None.
None == [given |-> FALSE, v |-> <<>>]
Some(x) == [given |-> TRUE, v |-> x]

\* Configurations a Tracker is constructed with (Tracker.__init__ arguments)
DistThreshs == {4, 7}
\* a threshold equal to the distance between the two points
TieThreshs == {5}
MaxFramesToSkips == {0, 1}
MaxTraceLengths == {1}
StartIds == {0, 2}

\* Arguments of set_trackIdCount and known ids of initialise_from_prior_state
SetIds == {-1, 4}
KnownIds == {1, 3}

VARIABLES
    tracks,              \* Tracker.tracks: the list of live Track objects
    trackIdCount,        \* Tracker.trackIdCount
    dist_thresh,         \* Tracker.dist_thresh
    max_frames_to_skip,  \* Tracker.max_frames_to_skip
    max_trace_length,    \* Tracker.max_trace_length
    use_kf,              \* Tracker.use_kf
    nextObj,             \* number of Track objects constructed so far (object identity)
    removedIds,          \* track_ids of the Track objects that left Tracker.tracks
    rewound,             \* some set_trackIdCount call lowered trackIdCount
    restores,            \* number of initialise_from_prior_state calls so far
    calls,               \* number of operations called so far
    last                 \* the last call: its arguments, locals and outcome

vars == <<tracks, trackIdCount, dist_thresh, max_frames_to_skip,
          max_trace_length, use_kf, nextObj, removedIds, rewound, restores,
          calls, last>>

config == <<dist_thresh, max_frames_to_skip, max_trace_length, use_kf>>

\* ------------------------------------------------------- Python helpers
\* s[i] for a valid non-negative index
At(s, i) == s[i + 1]

\* Python accepts -len(s) <= i < len(s)
PyValid(s, i) == (-Len(s) <= i) /\ (i < Len(s))

\* s[i] with Python's negative indices counting from the end
PyGet(s, i) == IF i >= 0 THEN s[i + 1] ELSE s[Len(s) + i + 1]

\* del s[i]
DelAt(s, i) == SubSeq(s, 1, i) \o SubSeq(s, i + 2, Len(s))

\* x in s
InList(x, s) == \E k \in 1..Len(s) : s[k] = x

\* The members of a set of indices as a list in increasing order: what
\* "for i in range(n): if ...: l.append(i)" builds
RECURSIVE Ascending(_)
Ascending(S) ==
    IF S = {} THEN <<>>
    ELSE LET m == CHOOSE x \in S : \A y \in S : x <= y
         IN <<m>> \o Ascending(S \ {m})

\* np.sqrt on the numbers the model meets (perfect squares)
Sqrt(n) == CHOOSE r \in 0..n : r * r = n

\* ----------------------------------------------------------------- Track
\* Track.__init__.  predicted_class is an optional; any(bbox) is a bool and
\* so never None: bbox_trace is always created.
Track(prediction, trackIdCountArg, predicted_class, bbox, known_id, obj) ==
    [obj             |-> obj,
     track_id        |-> IF known_id # -1 THEN known_id ELSE trackIdCountArg,
     prediction      |-> prediction,
     skipped_frames  |-> 0,
     trace           |-> <<>>,
     bbox_trace      |-> <<bbox>>,
     has_class       |-> predicted_class.given,
     predicted_class |-> IF predicted_class.given
                         THEN <<predicted_class.v>> ELSE <<>>]

IdsOf(ts) == {ts[k].track_id : k \in 1..Len(ts)}
ObjsOf(ts) == {ts[k].obj : k \in 1..Len(ts)}

\* The counter left as it is after a Track is constructed
NextId_kept(idCount) == idCount

\* "self.trackIdCount += 1" after a Track is constructed (lines 105, 147, 229)
NextId(idCount) == idCount + 1

\* ------------------------------------------------ Update: the bootstrap
\* The Tracker fields an operation mutates, and the exception that ended it
\* ("ok" when none did).
Locals(ts, idCount, objs) ==
    [tracks |-> ts, trackIdCount |-> idCount, nextObj |-> objs, err |-> "ok"]

\* "for i in range(len(detections))" of the branch "len(self.tracks) == 0".
\* The arguments of Track(...) are evaluated left to right:
\* predicted_classes[i], then bounding_boxes[i].
RECURSIVE BootstrapLoop(_, _, _, _, _)
BootstrapLoop(T, i, detections, predicted_classes, bounding_boxes) ==
    IF i >= Len(detections) THEN T
    ELSE IF ~predicted_classes.given THEN [T EXCEPT !.err = "TypeError"]
    ELSE IF ~PyValid(predicted_classes.v, i) THEN [T EXCEPT !.err = "IndexError"]
    ELSE IF ~bounding_boxes.given THEN [T EXCEPT !.err = "TypeError"]
    ELSE IF ~PyValid(bounding_boxes.v, i) THEN [T EXCEPT !.err = "IndexError"]
    ELSE BootstrapLoop(
            [T EXCEPT !.tracks = Append(@, Track(At(detections, i), T.trackIdCount,
                                                 Some(At(predicted_classes.v, i)),
                                                 At(bounding_boxes.v, i), -1,
                                                 T.nextObj)),
                      !.trackIdCount = NextId(@),
                      !.nextObj = @ + 1],
            i + 1, detections, predicted_classes, bounding_boxes)

\* Lines 139-148: tracks are created only when the list is empty; the code
\* has no return here and goes on to the cost matrix.
Bootstrap(T, detections, predicted_classes, bounding_boxes) ==
    IF Len(T.tracks) = 0
    THEN BootstrapLoop(T, 0, detections, predicted_classes, bounding_boxes)
    ELSE T

\* ---------------------------------------- Update: cost matrix and solve
\* sqrt(dx*dx + dy*dy)
Distance(p, q) ==
    Sqrt((p[1] - q[1]) * (p[1] - q[1]) + (p[2] - q[2]) * (p[2] - q[2]))

\* The no-match columns priced at the squared threshold
NoMatchCost_squared(thresh) == thresh * thresh

\* Line 166: the value of the N appended no-match columns,
\* np.ones((N, N)) * self.dist_thresh
NoMatchCost(thresh) == thresh

\* The N x (M+N) matrix: distances, then N columns of dist_thresh.
\* cost[i][j] is CostMatrix(...)[i][j] with 0-based i and j.
CostMatrix(ts, detections, thresh) ==
    LET N == Len(ts)
        M == Len(detections)
    IN [i \in 0..(N - 1) |->
          [j \in 0..(M + N - 1) |->
             IF j < M THEN Distance(At(ts, i).prediction, At(detections, j))
             ELSE NoMatchCost(thresh)]]

RECURSIVE TotalCost(_, _, _)
TotalCost(cost, col, n) ==
    IF n = 0 THEN 0
    ELSE cost[n - 1][col[n]] + TotalCost(cost, col, n - 1)

\* The one-to-one assignments of rows 0..n-1 to the columns of the
\* n x (M+N) matrix, each a list col_ind with col_ind[i] the column of row
\* i.  The N no-match columns M..M+N-1 are equal in cost and Update reads of
\* them only "assignment[i] >= M", so of the assignments that differ in
\* which no-match column a row takes one is kept: the k-th row without a
\* detection takes column M+k-1.
RECURSIVE Assignments(_, _)
Assignments(n, M) ==
    IF n = 0 THEN {<<>>}
    ELSE LET shorter == Assignments(n - 1, M)
             taken(col) == {col[k] : k \in 1..(n - 1)}
             unmatched(col) == Cardinality({k \in 1..(n - 1) : col[k] >= M})
         IN UNION {{Append(col, c) : c \in (0..(M - 1)) \ taken(col)}
                       \cup {Append(col, M + unmatched(col))} :
                   col \in shorter}

\* scipy.optimize.linear_sum_assignment(cost) for the N x (M+N) matrix:
\* row_ind is range(N) and col_ind a minimum-cost one-to-one assignment.
\* Which of several minimum-cost assignments scipy returns is not part of
\* its contract, so this is the set of all of them.
linear_sum_assignment(cost, N, M) ==
    LET all == Assignments(N, M)
        total == [col \in all |-> TotalCost(cost, col, N)]
        best == CHOOSE m \in {total[col] : col \in all} :
                    \A col \in all : m <= total[col]
    IN {col \in all : total[col] = best}

\* Lines 169-177: assignment = [-1]*N, then assignment[i] = col_ind[i]
\* for every row
AssignmentList(col_ind, N) == [k \in 1..N |-> col_ind[k]]

\* ------------------------------- Update: unassigned tracks and deletion
\* Lines 180-189: the indices whose column is a no-match column
UnAssignedTracks(assignment, N, M) ==
    Ascending({i \in 0..(N - 1) : At(assignment, i) = -1 \/ At(assignment, i) >= M})

\* Lines 186-188: those get assignment -1 and skipped_frames + 1
MarkUnassigned(ts, assignment, un_assigned_tracks) ==
    [tracks |-> [k \in 1..Len(ts) |->
                    IF InList(k - 1, un_assigned_tracks)
                    THEN [ts[k] EXCEPT !.skipped_frames = @ + 1]
                    ELSE ts[k]],
     assignment |-> [k \in 1..Len(assignment) |->
                    IF InList(k - 1, un_assigned_tracks) THEN -1 ELSE assignment[k]]]

\* Lines 194-197
DelTracks(ts, maxSkip) ==
    Ascending({i \in 0..(Len(ts) - 1) : At(ts, i).skipped_frames > maxSkip})

\* The loop deleting nothing
DeleteLoop_kept(ts, assignment, del_tracks, k) ==
    [tracks |-> ts, assignment |-> assignment]

\* Lines 199-206: "for id in del_tracks", each id an index of the list as
\* it was before the loop, applied to the list as it is now.
RECURSIVE DeleteLoop(_, _, _, _)
DeleteLoop(ts, assignment, del_tracks, k) ==
    IF k > Len(del_tracks) THEN [tracks |-> ts, assignment |-> assignment]
    ELSE LET id == del_tracks[k]
         IN IF id < Len(ts)
            THEN DeleteLoop(DelAt(ts, id), DelAt(assignment, id), del_tracks, k + 1)
            ELSE DeleteLoop(ts, assignment, del_tracks, k + 1)

\* ------------------------------------------------------- Update: births
\* Every detection taken as unassigned
UnAssignedDetects_all(assignment, M) == Ascending(0..(M - 1))

\* Lines 209-212
UnAssignedDetects(assignment, M) ==
    Ascending({i \in 0..(M - 1) : ~InList(i, assignment)})

\* Lines 215-232.  L carries tracks, trackIdCount, nextObj, err, the
\* assignment list and kf_calls, the KalmanFilter calls the per-track loop
\* made at each index it has passed.  "any(bounding_boxes)" raises TypeError on None and is
\* reached only when predicted_classes is not None.
RECURSIVE BirthLoop(_, _, _, _, _, _)
BirthLoop(L, un_assigned_detects, k, detections, predicted_classes, bounding_boxes) ==
    IF k > Len(un_assigned_detects) THEN L
    ELSE LET d == un_assigned_detects[k]
             born(t) == [L EXCEPT !.tracks = Append(@, t),
                                  !.trackIdCount = NextId(@),
                                  !.nextObj = @ + 1,
                                  !.assignment = Append(@, -1)]
         IN IF predicted_classes.given
            THEN IF ~bounding_boxes.given THEN [L EXCEPT !.err = "TypeError"]
                 ELSE IF ~PyValid(predicted_classes.v, d)
                      THEN [L EXCEPT !.err = "IndexError"]
                 ELSE IF ~PyValid(bounding_boxes.v, d)
                      THEN [L EXCEPT !.err = "IndexError"]
                 ELSE BirthLoop(born(Track(At(detections, d), L.trackIdCount,
                                           Some(At(predicted_classes.v, d)),
                                           At(bounding_boxes.v, d), -1, L.nextObj)),
                                un_assigned_detects, k + 1, detections,
                                predicted_classes, bounding_boxes)
            ELSE BirthLoop(born(Track(At(detections, d), L.trackIdCount,
                                      None, DefaultBBox, -1, L.nextObj)),
                           un_assigned_detects, k + 1, detections,
                           predicted_classes, bounding_boxes)

\* --------------------------------------- Update: per-track state update
\* KalmanFilter.update(z, flag) of kalman_filter_new: the filter's position
\* estimate after the correction.  The estimate est is the outcome of the
\* filter's arithmetic, which the model leaves open (any point).
KF_update(z, flag, est) == est

\* Lines 245-249.  The receiver self.tracks[i].predicted_class is evaluated
\* before the argument predicted_classes[assignment[i]].
ClassStep(t, i, a, un_assigned_tracks, predicted_classes) ==
    IF ~predicted_classes.given THEN [t |-> t, err |-> "ok"]
    ELSE IF ~t.has_class THEN [t |-> t, err |-> "AttributeError"]
    ELSE IF ~InList(i, un_assigned_tracks)
         THEN IF PyValid(predicted_classes.v, a)
              THEN [t |-> [t EXCEPT !.predicted_class =
                                      Append(@, PyGet(predicted_classes.v, a))],
                    err |-> "ok"]
              ELSE [t |-> t, err |-> "IndexError"]
         ELSE [t |-> [t EXCEPT !.predicted_class = Append(@, "")], err |-> "ok"]

\* Lines 250-255.  any(None) raises TypeError.
BoxStep(t, i, a, un_assigned_tracks, bounding_boxes) ==
    IF ~bounding_boxes.given THEN [t |-> t, err |-> "TypeError"]
    ELSE IF ~InList(i, un_assigned_tracks)
         THEN IF PyValid(bounding_boxes.v, a)
              THEN [t |-> [t EXCEPT !.bbox_trace =
                                      Append(@, PyGet(bounding_boxes.v, a))],
                    err |-> "ok"]
              ELSE [t |-> t, err |-> "IndexError"]
         ELSE [t |-> [t EXCEPT !.bbox_trace = Append(@, PyGet(@, -1))],
               err |-> "ok"]

\* Lines 270-273 and 286-289: "for j in range(n): del trace[j]" with
\* n = len(trace) - max_trace_length fixed when the loop starts.
RECURSIVE TrimLoop(_, _, _)
TrimLoop(trace, j, n) ==
    IF j >= n THEN [trace |-> trace, err |-> "ok"]
    ELSE IF ~PyValid(trace, j) THEN [trace |-> trace, err |-> "IndexError"]
    ELSE TrimLoop(DelAt(trace, j), j + 1, n)

TrimTrace(trace, maxLen) ==
    IF Len(trace) > maxLen THEN TrimLoop(trace, 0, Len(trace) - maxLen)
    ELSE [trace |-> trace, err |-> "ok"]

\* Lines 259-268: the calls made on the track's KalmanFilter, in order
KFCalls(t, a, detections, kf) ==
    IF ~kf THEN <<>>
    ELSE <<<<"predict">>>>
            \o (IF a # -1 THEN <<<<"update", At(detections, a), 1>>>>
                ELSE IF Len(t.trace) > 1 THEN <<<<"update", <<0, 0>>, 0>>>>
                ELSE <<>>)

\* Lines 257-291: skip counter, position, trace
MotionStep(t, a, detections, kf, maxLen, est) ==
    LET moved ==
            IF kf
            THEN IF a # -1
                 THEN [t EXCEPT !.skipped_frames = 0,
                                !.prediction = KF_update(At(detections, a), 1, est)]
                 ELSE IF Len(t.trace) > 1
                      THEN [t EXCEPT !.prediction = KF_update(<<0, 0>>, 0, est)]
                      ELSE t
            ELSE IF a # -1
                 THEN [t EXCEPT !.skipped_frames = 0,
                                !.prediction = At(detections, a)]
                 ELSE t
        trimmed == TrimTrace(moved.trace, maxLen)
    IN IF trimmed.err # "ok"
       THEN [t |-> [moved EXCEPT !.trace = trimmed.trace], err |-> trimmed.err,
             kf_calls |-> KFCalls(t, a, detections, kf)]
       ELSE [t |-> [moved EXCEPT !.trace = Append(trimmed.trace, moved.prediction)],
             err |-> "ok", kf_calls |-> KFCalls(t, a, detections, kf)]

\* One pass of the loop body, lines 243-291, for index i of the list as it
\* is after deletion and births.  del_tracks and un_assigned_tracks hold
\* indices of the list as it was before the deletion.
UpdateTrack(t, i, a, del_tracks, un_assigned_tracks, detections, predicted_classes, bounding_boxes, kf, maxLen, est) ==
    IF InList(i, del_tracks) THEN [t |-> t, err |-> "ok", kf_calls |-> <<>>]
    ELSE LET c == ClassStep(t, i, a, un_assigned_tracks, predicted_classes)
         IN IF c.err # "ok" THEN [t |-> c.t, err |-> c.err, kf_calls |-> <<>>]
            ELSE LET b == BoxStep(c.t, i, a, un_assigned_tracks, bounding_boxes)
                 IN IF b.err # "ok" THEN [t |-> b.t, err |-> b.err, kf_calls |-> <<>>]
                    ELSE MotionStep(b.t, a, detections, kf, maxLen, est)

\* Line 242: "for i in range(len(self.tracks))"; ests[i] is the estimate
\* the filter of track i produces in this call.
RECURSIVE TrackLoop(_, _, _, _, _, _, _, _, _, _)
TrackLoop(L, i, del_tracks, un_assigned_tracks, detections, predicted_classes, bounding_boxes, kf, maxLen, ests) ==
    IF i >= Len(L.tracks) THEN L
    ELSE LET r == UpdateTrack(At(L.tracks, i), i, At(L.assignment, i), del_tracks,
                              un_assigned_tracks, detections, predicted_classes,
                              bounding_boxes, kf, maxLen, ests[i])
             L2 == [L EXCEPT !.tracks[i + 1] = r.t, !.err = r.err,
                             !.kf_calls = Append(@, r.kf_calls)]
         IN IF r.err # "ok" THEN L2
            ELSE TrackLoop(L2, i + 1, del_tracks, un_assigned_tracks, detections,
                           predicted_classes, bounding_boxes, kf, maxLen, ests)

\* ------------------------------------------------------------ the calls
\* What is recorded of a call.  Fields a call does not reach keep these
\* values.
NoCall ==
    [op |-> "new", err |-> "ok", arg |-> 0,
     detections |-> <<>>, predicted_classes |-> None, bounding_boxes |-> None,
     pre |-> <<>>, preIdCount |-> 0, preObj |-> 0, boot |-> FALSE, solved |-> FALSE,
     solve_tracks |-> <<>>, assignment |-> <<>>,
     un_assigned_tracks |-> <<>>, del_tracks |-> <<>>, at_deletion |-> <<>>,
     un_assigned_detects |-> <<>>, kf_calls |-> <<>>]

\* Tracker.__init__ with use_kf drawn from kfs, max_frames_to_skip from
\* skips, dist_thresh from threshs and trackIdCount from starts
Construct(kfs, skips, threshs, starts) ==
    /\ tracks = <<>>
    /\ trackIdCount \in starts
    /\ dist_thresh \in threshs
    /\ max_frames_to_skip \in skips
    /\ max_trace_length \in MaxTraceLengths
    /\ use_kf \in kfs
    /\ nextObj = 0
    /\ removedIds = {}
    /\ rewound = FALSE
    /\ restores = 0
    /\ calls = 0
    /\ last = NoCall

Init == Construct(BOOLEAN, MaxFramesToSkips, DistThreshs, StartIds)

\* The estimates the Kalman filters may produce in one call; a track that
\* makes no KF.update call in it has no estimate to choose.
Estimates(L, kf) ==
    LET n == Len(L.tracks)
        corrects(i) == At(L.assignment, i) # -1 \/ Len(At(L.tracks, i).trace) > 1
    IN IF kf
       THEN {e \in [0..(n - 1) -> Points] :
               \A i \in 0..(n - 1) : ~corrects(i) => e[i] = <<0, 0>>}
       ELSE {[i \in 0..(n - 1) |-> <<0, 0>>]}

\* How a call ends: L holds the mutated fields, everLive the Track objects
\* that were in the list before the call or were put there by its bootstrap.
Outcome(L, everLive, obs) ==
    [tracks |-> L.tracks,
     trackIdCount |-> L.trackIdCount,
     nextObj |-> L.nextObj,
     removed |-> {everLive[k].track_id : k \in {x \in 1..Len(everLive) :
                                            everLive[x].obj \notin ObjsOf(L.tracks)}},
     obs |-> obs]

\* Update from line 179 on, for the assignment col_ind the solve returned
\* for the tracks of T1: the ways the call can end.
UpdateSolved(T1, called, detections, predicted_classes, bounding_boxes, col_ind) ==
    LET N == Len(T1.tracks)
        M == Len(detections)
        assignment == AssignmentList(col_ind, N)
        un_assigned_tracks == UnAssignedTracks(assignment, N, M)
        marked == MarkUnassigned(T1.tracks, assignment, un_assigned_tracks)
        del_tracks == DelTracks(marked.tracks, max_frames_to_skip)
        deleted == DeleteLoop(marked.tracks, marked.assignment, del_tracks, 1)
        un_assigned_detects == UnAssignedDetects(deleted.assignment, M)
        L0 == [tracks |-> deleted.tracks,
               trackIdCount |-> T1.trackIdCount,
               nextObj |-> T1.nextObj,
               err |-> "ok",
               assignment |-> deleted.assignment,
               kf_calls |-> <<>>]
        L1 == BirthLoop(L0, un_assigned_detects, 1, detections,
                        predicted_classes, bounding_boxes)
        solved == [called EXCEPT !.solved = TRUE,
                                 !.solve_tracks = T1.tracks,
                                 !.assignment = marked.assignment,
                                 !.un_assigned_tracks = un_assigned_tracks,
                                 !.del_tracks = del_tracks,
                                 !.at_deletion = marked.tracks,
                                 !.un_assigned_detects = un_assigned_detects]
        ended(L) == Outcome(L, T1.tracks, [solved EXCEPT !.err = L.err,
                                                         !.kf_calls = L.kf_calls])
    IN IF L1.err # "ok" THEN {ended(L1)}
       ELSE {ended(TrackLoop(L1, 0, del_tracks, un_assigned_tracks, detections,
                             predicted_classes, bounding_boxes, use_kf,
                             max_trace_length, ests)) :
                ests \in Estimates(L1, use_kf)}

\* Tracker.Update(detections, predicted_classes, bounding_boxes) on the
\* current Tracker: the ways the call can end
UpdateOutcomes(detections, predicted_classes, bounding_boxes) ==
    LET T0 == Locals(tracks, trackIdCount, nextObj)
        T1 == Bootstrap(T0, detections, predicted_classes, bounding_boxes)
        called == [NoCall EXCEPT !.op = "Update",
                                 !.detections = detections,
                                 !.predicted_classes = predicted_classes,
                                 !.bounding_boxes = bounding_boxes,
                                 !.pre = tracks,
                                 !.preIdCount = trackIdCount,
                                 !.preObj = nextObj,
                                 !.boot = (Len(tracks) = 0)]
        cost == CostMatrix(T1.tracks, detections, dist_thresh)
    IN IF T1.err # "ok"
       THEN {Outcome(T1, T1.tracks, [called EXCEPT !.err = T1.err])}
       ELSE UNION {UpdateSolved(T1, called, detections, predicted_classes,
                                bounding_boxes, col_ind) :
                     col_ind \in linear_sum_assignment(cost, Len(T1.tracks),
                                                       Len(detections))}

Update(detections, predicted_classes, bounding_boxes) ==
    \E end \in UpdateOutcomes(detections, predicted_classes, bounding_boxes) :
        /\ tracks' = end.tracks
        /\ trackIdCount' = end.trackIdCount
        /\ nextObj' = end.nextObj
        /\ removedIds' = removedIds \cup end.removed
        /\ calls' = calls + 1
        /\ last' = end.obs
        /\ UNCHANGED <<config, rewound, restores>>

\* clear_tracks that also starts the id counter again
clear_tracks_recount ==
    /\ tracks' = <<>>
    /\ trackIdCount' = 0
    /\ removedIds' = removedIds \cup IdsOf(tracks)
    /\ calls' = calls + 1
    /\ last' = [NoCall EXCEPT !.op = "clear_tracks", !.pre = tracks,
                              !.preIdCount = trackIdCount, !.preObj = nextObj]
    /\ UNCHANGED <<nextObj, config, rewound, restores>>

\* Tracker.clear_tracks()
clear_tracks ==
    /\ tracks' = <<>>
    /\ removedIds' = removedIds \cup IdsOf(tracks)
    /\ calls' = calls + 1
    /\ last' = [NoCall EXCEPT !.op = "clear_tracks", !.pre = tracks,
                              !.preIdCount = trackIdCount, !.preObj = nextObj]
    /\ UNCHANGED <<trackIdCount, nextObj, config, rewound, restores>>

\* Tracker.set_trackIdCount(latest_trackid)
set_trackIdCount(latest_trackid) ==
    /\ trackIdCount' = latest_trackid + 1
    /\ rewound' = (rewound \/ latest_trackid + 1 < trackIdCount)
    /\ calls' = calls + 1
    /\ last' = [NoCall EXCEPT !.op = "set_trackIdCount", !.arg = latest_trackid,
                              !.pre = tracks, !.preIdCount = trackIdCount,
                              !.preObj = nextObj]
    /\ UNCHANGED <<tracks, nextObj, removedIds, config, restores>>

\* Tracker.initialise_from_prior_state(prior_state),
\* prior_state = [id, x, y, class, bbox]
initialise_from_prior_state(prior_state) ==
    /\ tracks' = Append(tracks, Track(<<prior_state[2], prior_state[3]>>,
                                      trackIdCount, prior_state[4],
                                      prior_state[5], prior_state[1], nextObj))
    /\ trackIdCount' = NextId(trackIdCount)
    /\ nextObj' = nextObj + 1
    /\ calls' = calls + 1
    /\ last' = [NoCall EXCEPT !.op = "initialise_from_prior_state",
                              !.arg = prior_state[1],
                              !.pre = tracks, !.preIdCount = trackIdCount,
                              !.preObj = nextObj]
    /\ restores' = restores + 1
    /\ UNCHANGED <<removedIds, config, rewound>>

\* --------------------------------------------------- the calls explored
RECURSIVE ListsOver(_, _)
ListsOver(S, n) ==
    IF n = 0 THEN {<<>>}
    ELSE LET shorter == ListsOver(S, n - 1)
         IN shorter \cup {Append(l, x) : l \in {y \in shorter : Len(y) = n - 1}, x \in S}

ClassesOf(detections) == [k \in 1..Len(detections) |-> ClassOf(detections[k])]
BoxesOf(detections) == [k \in 1..Len(detections) |-> BoxOf(detections[k])]

PriorStates ==
    {<<id, p[1], p[2], Some(ClassOf(p)), BoxOf(p)>> : id \in KnownIds, p \in Points}

DoUpdate ==
    /\ calls < MaxCalls
    /\ \E d \in ListsOver(Points, MaxDet) :
         /\ Len(tracks) + Len(d) <= MaxTracks
         /\ \E omit \in BOOLEAN :
              IF omit THEN Update(d, None, None)
              ELSE Update(d, Some(ClassesOf(d)), Some(BoxesOf(d)))

DoClear ==
    /\ calls < MaxCalls
    /\ clear_tracks

DoSet ==
    /\ calls < MaxCalls
    /\ \E v \in SetIds : set_trackIdCount(v)

DoRestore ==
    /\ calls < MaxCalls
    /\ Len(tracks) < MaxTracks
    /\ \E ps \in PriorStates : initialise_from_prior_state(ps)

\* Classes and boxes of a length other than len(detections): one entry
\* short, or one entry long
Shorter(l) == SubSeq(l, 1, Len(l) - 1)
ClassLists(detections) ==
    {ClassesOf(detections), Append(ClassesOf(detections), "ant")}
        \cup (IF detections = <<>> THEN {} ELSE {Shorter(ClassesOf(detections))})
BoxLists(detections) ==
    {BoxesOf(detections), Append(BoxesOf(detections), BoxOf(<<0, 0>>))}
        \cup (IF detections = <<>> THEN {} ELSE {Shorter(BoxesOf(detections))})

DoUpdateMismatched ==
    /\ calls < MaxCalls
    /\ \E d \in ListsOver(Points, MaxDet) :
         /\ Len(tracks) + Len(d) <= MaxTracks
         /\ \E c \in ClassLists(d), b \in BoxLists(d) :
              /\ (Len(c) # Len(d) \/ Len(b) # Len(d))
              /\ Update(d, Some(c), Some(b))

Next == DoUpdate \/ DoClear \/ DoSet \/ DoRestore

Spec == Init /\ [][Next]_vars

\* A Tracker without estimation that drops a track at its first missed
\* frame, driven by Update and clear_tracks alone
InitUC == Construct({FALSE}, {0}, DistThreshs, StartIds)
NextUC == DoUpdate \/ DoClear
SpecUC == InitUC /\ [][NextUC]_vars

\* ... and by set_trackIdCount as well
InitUCS == Construct({FALSE}, {0}, DistThreshs, StartIds)
NextUCS == DoUpdate \/ DoClear \/ DoSet
SpecUCS == InitUCS /\ [][NextUCS]_vars

\* The Tracker of SpecUC numbering from 0, with the threshold at which a
\* match and a no-match column cost the same among its thresholds
InitTie == Construct({FALSE}, {0}, DistThreshs \cup TieThreshs, {0})
SpecTie == InitTie /\ [][NextUC]_vars

\* The Tracker of SpecUC called with classes and boxes of any length
NextMismatch == DoUpdate \/ DoUpdateMismatched \/ DoClear
SpecMismatch == InitUC /\ [][NextMismatch]_vars

\* A Tracker without estimation, numbering from 0, with the threshold
\* below the distance of the two points, on which Update keeps being called
\* (as long as the bound on calls allows)
InitLive == Construct({FALSE}, MaxFramesToSkips, {4}, {0})
NextLive == DoUpdate

\* One more call is made.  DoUpdate is enabled exactly when calls < MaxCalls
\* (the empty detections list is always accepted) and each of its steps
\* adds one to calls, so on the behaviours of NextLive weak fairness of
\* CallMade is weak fairness of DoUpdate: the caller keeps calling Update.
CallMade == calls < MaxCalls /\ calls' = calls + 1
SpecLive == InitLive /\ [][NextLive]_vars /\ WF_calls(CallMade)

\* ============================================================== claims
\* What the last call was
Updated == last.op = "Update"
Returned == last.err = "ok"

\* The index in the current list of the Track object obj, 0 when it left
IndexOf(obj) ==
    IF obj \in ObjsOf(tracks)
    THEN CHOOSE k \in 1..Len(tracks) : tracks[k].obj = obj
    ELSE 0

\* The Track objects the last call constructed and left in the list
NewTracks == {k \in 1..Len(tracks) : tracks[k].obj >= last.preObj}

\* ------------------------------------------------------------------ C1
\* C1: in every state reached from a fresh Tracker by Update and
\* clear_tracks calls, whatever the detections and the starting
\* trackIdCount, the track_ids of the tracks in Tracker.tracks are pairwise
\* distinct.
C1_LiveIdsDistinct ==
    \A i, j \in 1..Len(tracks) :
        i # j => tracks[i].track_id # tracks[j].track_id

\* C1 witness: an Update has put new tracks beside a surviving one after
\* other tracks had been removed.
C1_Witness ==
    /\ Updated
    /\ removedIds # {}
    /\ NewTracks # {}
    /\ \E k \in 1..Len(tracks) : k \notin NewTracks

\* ------------------------------------------------------------------ C2
\* The tracks the last call constructed have ids no removed track had, and
\* the tracks that were in the list before the call and still are have the
\* id they had.
NoIdReused ==
    /\ \A k \in NewTracks : tracks[k].track_id \notin removedIds
    /\ \A j \in 1..Len(last.pre) :
          IndexOf(last.pre[j].obj) # 0 =>
              tracks[IndexOf(last.pre[j].obj)].track_id = last.pre[j].track_id

\* C2 as stated: over any sequence of Update, clear_tracks and
\* set_trackIdCount calls, once a track with id k has been removed no track
\* created later is given id k, and a live track's id never changes.
C2_Original == NoIdReused

\* C2 as amended: the same, over the sequences in which no set_trackIdCount
\* call lowers trackIdCount (latest_trackid + 1 >= trackIdCount at each
\* call).
C2_NoReuseUnlessRewound == ~rewound => NoIdReused

\* C2 witness: after a removal and a set_trackIdCount call that raised the
\* counter, an Update created a track, numbered from the raised counter.
C2_Witness ==
    /\ Updated
    /\ ~rewound
    /\ removedIds # {}
    /\ \E k \in NewTracks : tracks[k].track_id >= 5

\* ------------------------------------------------------------------ C3
\* C3: after any sequence of initialise_from_prior_state calls the track
\* restored last carries the id of its record, and the id the next
\* automatically created track gets (trackIdCount) is greater than every
\* restored id.
C3_Original ==
    (restores = calls /\ calls > 0) =>
        /\ tracks[Len(tracks)].track_id = last.arg
        /\ \A k \in 1..Len(tracks) : tracks[k].track_id < trackIdCount

\* ------------------------------------------------------------------ C4
\* C4: after every Update call no track in Tracker.tracks has
\* skipped_frames greater than max_frames_to_skip.
C4_Original ==
    (Updated /\ Returned) =>
        \A k \in 1..Len(tracks) : tracks[k].skipped_frames <= max_frames_to_skip

\* ------------------------------------------------------------------ C5
\* C5: every track an Update call removed had, at the deletion step of that
\* call, skipped_frames greater than max_frames_to_skip.
C5_Original ==
    (Updated /\ last.solved) =>
        \A k \in 1..Len(last.at_deletion) :
            IndexOf(last.at_deletion[k].obj) = 0 =>
                last.at_deletion[k].skipped_frames > max_frames_to_skip

\* ------------------------------------------------------------------ C6
\* C6: for every track live before and after an Update call, if the solve
\* matched it to a real detection its skipped_frames is 0 after the call,
\* otherwise it is its previous value plus 1.
C6_Original ==
    (Updated /\ Returned /\ ~last.boot) =>
        \A j \in 1..Len(last.pre) :
            LET k == IndexOf(last.pre[j].obj)
            IN k # 0 =>
                 IF last.assignment[j] # -1
                 THEN tracks[k].skipped_frames = 0
                 ELSE tracks[k].skipped_frames = last.pre[j].skipped_frames + 1

\* ------------------------------------------------------------------ C7
\* C7: after any number of Update calls, len(trace) of every live track is
\* at most max_trace_length.
C7_Original ==
    \A k \in 1..Len(tracks) : Len(tracks[k].trace) <= max_trace_length

\* ------------------------------------------------------------------ C8
\* C8: after any number of Update calls with bounding boxes supplied,
\* len(bbox_trace) of every live track is at most max_trace_length.
C8_Original ==
    (Updated /\ last.bounding_boxes.given) =>
        \A k \in 1..Len(tracks) : Len(tracks[k].bbox_trace) <= max_trace_length

\* ------------------------------------------------------------------ C9
\* The position of row i (1-based) of the last solve and its distance to
\* detection j (0-based)
SolveDistance(i, j) ==
    Distance(last.solve_tracks[i].prediction, At(last.detections, j))

C10_Original ==
    (Updated /\ Returned /\ last.boot) =>
        /\ ~last.solved
        /\ Len(tracks) = Len(last.detections)
        /\ \A k \in 1..Len(tracks) :
              /\ tracks[k].track_id = last.preIdCount + k - 1
              /\ tracks[k].trace = <<>>
              /\ Len(tracks[k].bbox_trace) = 1

\* ----------------------------------------------------------------- C11
\* The last call was an Update given classes or boxes of a length other
\* than len(detections)
Mismatched ==
    /\ Updated
    /\ \/ (last.predicted_classes.given
            /\ Len(last.predicted_classes.v) # Len(last.detections))
       \/ (last.bounding_boxes.given
            /\ Len(last.bounding_boxes.v) # Len(last.detections))

\* C11: an Update given classes or boxes of a length other than
\* len(detections) ends in an error, with Tracker.tracks and trackIdCount
\* as they were before the call.
C11_Original ==
    Mismatched =>
        /\ ~Returned
        /\ tracks = last.pre
        /\ trackIdCount = last.preIdCount

\* ----------------------------------------------------------------- C12
\* C12: an Update called with detections only (predicted_classes and
\* bounding_boxes None) completes normally from every reachable state.
C12_Original ==
    (Updated /\ ~last.predicted_classes.given /\ ~last.bounding_boxes.given)
        => Returned

\* ----------------------------------------------------------------- C13
\* C13: a clear_tracks call empties Tracker.tracks and leaves dist_thresh,
\* max_frames_to_skip, max_trace_length, use_kf and trackIdCount as they
\* were, and the tracks the next Update creates are numbered from that
\* counter on.
C13_ClearKeepsConfig ==
    [][/\ (last'.op = "clear_tracks" /\ calls' = calls + 1) =>
             /\ tracks' = <<>>
             /\ UNCHANGED <<config, trackIdCount>>
       /\ (last.op = "clear_tracks" /\ last'.op = "Update") =>
             \A k \in 1..Len(tracks') :
                 tracks'[k].track_id = trackIdCount + k - 1]_vars

\* C13 witness: an Update numbered its tracks after a clear_tracks call
\* that emptied a list of tracks, the counter being past 0.
C13_Witness ==
    /\ Updated
    /\ last.pre = <<>>
    /\ removedIds # {}
    /\ last.preIdCount > 0
    /\ Len(tracks) > 1

\* ----------------------------------------------------------------- C14
\* The rows (1-based) of the last solve whose track is still in the list
Survivors == {i \in 1..Len(last.solve_tracks) : IndexOf(last.solve_tracks[i].obj) # 0}

SolveUnmatched ==
    Ascending({d \in 0..(Len(last.detections) - 1) :
                  \A i \in 1..Len(last.solve_tracks) : last.assignment[i] # d})

\* C15: in every Update on a non-empty tracker exactly the detections the
\* solve matched to no track spawn a new track, one each; each new track is
\* at its detection's position with skipped_frames 0, and its class history
\* and bbox trace hold only that detection's class and box.
C15_Original ==
    (Updated /\ Returned /\ last.solved /\ ~last.boot) =>
        LET born == Ascending(NewTracks)
        IN /\ Len(born) = Len(SolveUnmatched)
           /\ \A n \in 1..Len(born) :
                 LET t == tracks[born[n]]
                     d == SolveUnmatched[n]
                 IN /\ t.prediction = At(last.detections, d)
                    /\ t.skipped_frames = 0
                    /\ last.predicted_classes.given =>
                          \A e \in 1..Len(t.predicted_class) :
                              t.predicted_class[e] = At(last.predicted_classes.v, d)
                    /\ last.bounding_boxes.given =>
                          \A e \in 1..Len(t.bbox_trace) :
                              t.bbox_trace[e] = At(last.bounding_boxes.v, d)

\* ----------------------------------------------------------------- C16
\* C16: when classes are supplied, every track live before an Update and
\* surviving it has exactly one entry appended to its predicted_class
\* history: the label of the detection it was matched to, or "" when it was
\* not matched.
C16_Original ==
    (Updated /\ Returned /\ last.solved /\ ~last.boot /\ last.predicted_classes.given) =>
        \A j \in Survivors :
            LET t == tracks[IndexOf(last.solve_tracks[j].obj)]
                a == last.assignment[j]
            IN t.predicted_class =
                   Append(last.solve_tracks[j].predicted_class,
                          IF a # -1 THEN At(last.predicted_classes.v, a) ELSE "")

\* ----------------------------------------------------------------- C17
\* C17: with use_kf = False, after every Update each surviving track that
\* was matched has the position of its detection, each surviving unmatched
\* track the position it had, and each surviving track's trace has its
\* current position appended once (after the oldest entries were dropped).
C17_Original ==
    (Updated /\ Returned /\ last.solved /\ ~last.boot /\ ~use_kf) =>
        \A j \in Survivors :
            LET old == last.solve_tracks[j]
                t == tracks[IndexOf(old.obj)]
                a == last.assignment[j]
            IN /\ t.prediction = IF a # -1 THEN At(last.detections, a)
                                            ELSE old.prediction
               /\ \E m \in 0..Len(old.trace) :
                     t.trace = Append(SubSeq(old.trace, m + 1, Len(old.trace)),
                                      t.prediction)

\* ----------------------------------------------------------------- C18
\* The tracks (indices of the list) the last call spawned from unassigned
\* detections
Spawned == {k \in NewTracks : tracks[k].obj \notin ObjsOf(last.solve_tracks)}

\* The estimator calls C18 states for a track with assignment a (-1 when
\* unmatched) whose trace held n points
StatedCalls(a, n) ==
    <<<<"predict">>>>
        \o (IF a # -1 THEN <<<<"update", At(last.detections, a), 1>>>>
            ELSE IF n > 1 THEN <<<<"update", <<0, 0>>, 0>>>>
            ELSE <<>>)

\* C18: with use_kf = True, in every Update each track live at the end of
\* the call has KF.predict() called exactly once and first, then KF.update
\* with its detection and flag 1 iff it was matched, KF.update with the
\* empty measurement and flag 0 iff it was unmatched with more than one
\* point in its trace, and no other estimator call.
C18_Original ==
    (Updated /\ Returned /\ last.solved /\ use_kf) =>
        /\ \A j \in Survivors :
              last.kf_calls[IndexOf(last.solve_tracks[j].obj)]
                  = StatedCalls(last.assignment[j], Len(last.solve_tracks[j].trace))
        /\ \A k \in Spawned : last.kf_calls[k] = StatedCalls(-1, 0)

\* ----------------------------------------------------------------- C19
\* Track object o is in Tracker.tracks
Live(o) == o \in ObjsOf(tracks)

\* The last call was an Update whose solve matched o to a real detection
MatchedInLast(o) ==
    /\ Updated
    /\ \E j \in 1..Len(last.solve_tracks) :
          last.solve_tracks[j].obj = o /\ last.assignment[j] # -1

\* The Update calls after which the track at index k (1-based) is gone if
\* it is never matched: those that bring its counter to max_frames_to_skip,
\* and one for each place it has in the list
CallsToRemoval(k) ==
    (IF tracks[k].skipped_frames < max_frames_to_skip
     THEN max_frames_to_skip - tracks[k].skipped_frames ELSE 0) + k

\* C19: if Update keeps being called, a live track that is never again
\* matched to a real detection is eventually removed from Tracker.tracks.
\* Within the calls explored: a live track with enough calls left is later
\* matched or removed.
C19_UnmatchedEventuallyRemoved ==
    \A o \in 0..(MaxCalls * MaxDet) :
        (Live(o) /\ calls + CallsToRemoval(IndexOf(o)) <= MaxCalls)
            ~> (~Live(o) \/ MatchedInLast(o))

\* C19 witness: an Update removed a track that had survived an earlier
\* Update with skipped_frames above max_frames_to_skip.
C19_Witness ==
    /\ Updated
    /\ \E j \in 1..Len(last.pre) :
          /\ last.pre[j].skipped_frames > max_frames_to_skip
          /\ ~Live(last.pre[j].obj)

====
